---- MODULE Spec2Model ----
\* deep-merge-changes (src/lib/index.js): deepMergeChanges and its helpers over
\* an explicit heap, so that object identity (===), fresh allocation and
\* in-place writes (Object.assign) are part of the state.
EXTENDS Integers, Sequences, FiniteSets, TLC

\* ------------------------------------------------------------------ bounds
\* Largest number of nodes (scalars and collections) of the `current` literal.
MaxCurrentNodes == 3
\* Largest number of nodes of all the `changes` arguments of a call together.
MaxChangesNodes == 3

\* ------------------------------------------------------------------ values
\* A JavaScript value is a tagged pair; a collection is a reference into the heap.
Num(n) == [t |-> "number", v |-> n]
NaN == [t |-> "NaN", v |-> 0]
Null == [t |-> "null", v |-> 0]
Undefined == [t |-> "undefined", v |-> 0]
OMIT == [t |-> "symbol", v |-> 0]
Ref(a) == [t |-> "ref", v |-> a]

\* Property keys are strings; the array indices are the keys "0", "1", ...
IndexKeys == <<"0", "1", "2", "3", "4", "5">>
\* String(i) of an array index, and Number(key) of an index key.
ToKey(i) == IndexKeys[i + 1]
ToNumber(key) == (CHOOSE i \in 1..Len(IndexKeys) : IndexKeys[i] = key) - 1

\* A heap object: a plain record ("Object") or an array ("Array", with its
\* length); p maps the own enumerable keys to values, a missing index is a hole.
EmptyProps == [k \in {} |-> Undefined]
NewObject == [kind |-> "Object", len |-> 0, p |-> EmptyProps]
NewArray == [kind |-> "Array", len |-> 0, p |-> EmptyProps]

Alloc(h, obj) == [heap |-> Append(h, obj), val |-> Ref(Len(h) + 1)]
Deref(h, x) == h[x.v]
\* Array.isArray(x)
IsArray(h, x) == x.t = "ref" /\ Deref(h, x).kind = "Array"
\* x[key]: an own property, else undefined (x is a collection).
Get(h, x, key) == IF key \in DOMAIN Deref(h, x).p THEN Deref(h, x).p[key] ELSE Undefined
\* Object.keys(x), in the engine's order (ascending indices).
ObjectKeys(h, x) == SelectSeq(IndexKeys, LAMBDA k : k \in DOMAIN Deref(h, x).p)
\* a === b
StrictEquals(a, b) == a.t # "NaN" /\ a = b

\* x[key] = val, written in place; an array grows to hold a new index.
SetProp(h, x, key, val) ==
    LET o == Deref(h, x)
        q == [k \in (DOMAIN o.p) \cup {key} |-> IF k = key THEN val ELSE o.p[k]]
        n == IF o.kind = "Array" /\ ToNumber(key) >= o.len THEN ToNumber(key) + 1 ELSE o.len
    IN [h EXCEPT ![x.v] = [kind |-> o.kind, len |-> n, p |-> q]]

\* Object.assign(target, source): own keys of source written onto target in place.
RECURSIVE AssignKeys(_, _, _, _)
AssignKeys(h, target, source, keys) ==
    IF keys = <<>> THEN h
    ELSE AssignKeys(SetProp(h, target, Head(keys), Get(h, source, Head(keys))),
                    target, source, Tail(keys))

ObjectAssign(h, target, source) == AssignKeys(h, target, source, ObjectKeys(h, source))

\* ------------------------------------------------------------------ helpers
shallowEqual(h, current, next) ==
    LET currentKeys == ObjectKeys(h, current)
    IN /\ Len(currentKeys) = Len(ObjectKeys(h, next))
       /\ \A i \in 1..Len(currentKeys) :
              StrictEquals(Get(h, current, currentKeys[i]), Get(h, next, currentKeys[i]))

\* The two predicates of the merge, as closures: (value, key) => next[key] !== OMIT
\* of the filter of `current`, and value => value !== OMIT of the pickBy of `next`.
NextKeyIsKept(next) == [fn |-> "key", next |-> next]
ValueIsKept == [fn |-> "value", next |-> Undefined]
\* predicate(value, key)
Apply(h, predicate, value, key) ==
    IF predicate.fn = "key"
    THEN ~StrictEquals(Get(h, predicate.next, key), OMIT)
    ELSE ~StrictEquals(value, OMIT)

pickBy(h, collection, predicate) ==
    LET o == Deref(h, collection)
        kept == {k \in DOMAIN o.p : Apply(h, predicate, o.p[k], k)}
    IN Alloc(h, [kind |-> "Object", len |-> 0, p |-> [k \in kept |-> o.p[k]]])

isCollection(h, value) ==
    /\ value.t \notin {"null", "undefined", "NaN"}
    /\ value.t = "ref"
    /\ Deref(h, value).kind \in {"Object", "Array"}

\* Array.prototype.filter: the present indices that pass, packed into a new array.
ArrayFilter(h, collection, predicate) ==
    LET o == Deref(h, collection)
        idx == SelectSeq([i \in 1..o.len |-> i - 1],
                         LAMBDA i : ToKey(i) \in DOMAIN o.p /\ Apply(h, predicate, o.p[ToKey(i)], ToKey(i)))
    IN Alloc(h, [kind |-> "Array", len |-> Len(idx),
                 p |-> [k \in {ToKey(j - 1) : j \in 1..Len(idx)} |->
                           o.p[ToKey(idx[ToNumber(k) + 1])]]])

filter(h, collection, predicate) ==
    IF IsArray(h, collection)
    THEN ArrayFilter(h, collection, predicate)
    ELSE pickBy(h, collection, predicate)

\* Math.max(...keys): the keys as numbers; no key at all gives -Infinity.
MathMax(keys) ==
    LET nums == {ToNumber(keys[i]) : i \in 1..Len(keys)}
    IN IF nums = {} THEN [inf |-> TRUE, n |-> 0]
       ELSE [inf |-> FALSE, n |-> CHOOSE m \in nums : \A x \in nums : x <= m]

\* array.slice(0, end): a new array of the first min(end, length) slots.
ArraySlice(h, array, end) ==
    LET o == Deref(h, array)
        n == IF end.inf THEN 0 ELSE IF end.n < o.len THEN end.n ELSE o.len
        kept == {k \in DOMAIN o.p : ToNumber(k) < n}
    IN Alloc(h, [kind |-> "Array", len |-> n, p |-> [k \in kept |-> o.p[k]]])

\* ------------------------------------------------------------------ the merge
RECURSIVE deepMergeChanges(_, _, _)
RECURSIVE mapValuesFrom(_, _, _, _, _)

\* mapValues(collection, (value, key) => deepMergeChanges(current[key], value)):
\* the accumulator acc is filled key by key.
mapValuesFrom(h, acc, collection, current, keys) ==
    IF keys = <<>> THEN [heap |-> h, val |-> acc]
    ELSE LET key == Head(keys)
             r == deepMergeChanges(h, Get(h, current, key), <<Get(h, collection, key)>>)
         IN mapValuesFrom(SetProp(r.heap, acc, key, r.val), acc, collection, current, Tail(keys))

\* Mutant: the changes are assigned as they are, not merged with `current`.
mapValuesIdentity(h, collection, current) == [heap |-> h, val |-> collection]

mapValues(h, collection, current) ==
    LET acc == Alloc(h, NewObject)
    IN mapValuesFrom(acc.heap, acc.val, collection, current, ObjectKeys(h, collection))

\* Mutant: Object.assign writes onto `current` itself, not onto a filtered copy.
mergeCollectionsInPlace(h, current, next) ==
    LET filteredNext == pickBy(h, next, ValueIsKept)
        mapped == mapValues(filteredNext.heap, filteredNext.val, current)
    IN [heap |-> ObjectAssign(mapped.heap, current, mapped.val), val |-> current]

\* Mutant: the merged changes alone are the result, the keys only `current`
\* has are not carried over.
mergeCollectionsDropsCurrent(h, current, next) ==
    LET filteredNext == pickBy(h, next, ValueIsKept)
        mapped == mapValues(filteredNext.heap, filteredNext.val, current)
    IN [heap |-> mapped.heap,
        val |-> IF shallowEqual(mapped.heap, current, mapped.val) THEN current ELSE mapped.val]

\* The merge of two collections: the body of the reducer's if.
mergeCollections(h, current, next) ==
    LET fc == filter(h, current, NextKeyIsKept(next))
        filteredNext == pickBy(fc.heap, next, ValueIsKept)
        filteredCurrent ==
            IF IsArray(h, current) /\ IsArray(h, next)
            THEN ArraySlice(filteredNext.heap, fc.val,
                            MathMax(ObjectKeys(filteredNext.heap, filteredNext.val)))
            ELSE [heap |-> filteredNext.heap, val |-> fc.val]
        mapped == mapValues(filteredCurrent.heap, filteredNext.val, current)
        h2 == ObjectAssign(mapped.heap, filteredCurrent.val, mapped.val)
        merged == filteredCurrent.val
    IN [heap |-> h2, val |-> IF shallowEqual(h2, current, merged) THEN current ELSE merged]

\* Mutant: changes that are no collection are ignored instead of returned.
ReducerKeepsCurrent(h, current, next) ==
    IF isCollection(h, current) /\ isCollection(h, next)
    THEN mergeCollections(h, current, next)
    ELSE [heap |-> h, val |-> current]

\* The reducer of deepMergeChanges: one (current, next) step.
Reducer(h, current, next) ==
    IF isCollection(h, current) /\ isCollection(h, next)
    THEN mergeCollections(h, current, next)
    ELSE [heap |-> h, val |-> next]

\* Mutant: reduceRight, the last change is applied first.
deepMergeChangesRight(h, current, changes) ==
    IF changes = <<>> THEN [heap |-> h, val |-> current]
    ELSE LET r == Reducer(h, current, changes[Len(changes)])
         IN deepMergeChanges(r.heap, r.val, SubSeq(changes, 1, Len(changes) - 1))

\* changes.reduce(Reducer, current)
deepMergeChanges(h, current, changes) ==
    IF changes = <<>> THEN [heap |-> h, val |-> current]
    ELSE LET r == Reducer(h, current, Head(changes))
         IN deepMergeChanges(r.heap, r.val, Tail(changes))

\* ------------------------------------------------------------------ literals
\* The caller's object literals, as trees: a scalar, or a collection whose p
\* maps keys to sub-literals (v is the length of an array literal).
Leaf(x) == [t |-> x.t, v |-> x.v, p |-> EmptyProps]
Lit(kind, kids) == [t |-> kind, v |-> IF kind = "Array" THEN Cardinality(DOMAIN kids) ELSE 0, p |-> kids]
IsLeaf(tree) == tree.t \notin {"Object", "Array"}

\* The key sets of the record literals, and of the array literals of each length.
RecordKeys == {<<"0">>, <<"1">>, <<"0", "1">>}
ArrayKeys(n) == SubSeq(IndexKeys, 1, n)

RECURSIVE Literals(_, _)
RECURSIVE Kids(_, _, _)
\* The ways to give the keys sub-literals of n nodes together.
Kids(keys, n, scalars) ==
    IF keys = <<>> THEN IF n = 0 THEN {EmptyProps} ELSE {}
    ELSE UNION {{[k \in (DOMAIN f) \cup {Head(keys)} |-> IF k = Head(keys) THEN c ELSE f[k]] :
                    c \in Literals(i, scalars), f \in Kids(Tail(keys), n - i, scalars)} :
                i \in 1..(n - (Len(keys) - 1))}

\* The literals of exactly n nodes over the given scalars.
Literals(n, scalars) ==
    IF n = 1 THEN {Leaf(x) : x \in scalars} \cup {Lit("Object", EmptyProps), Lit("Array", EmptyProps)}
    ELSE UNION {{Lit("Object", f) : f \in Kids(keys, n - 1, scalars)} : keys \in RecordKeys}
         \cup UNION {{Lit("Array", f) : f \in Kids(ArrayKeys(len), n - 1, scalars)} : len \in 1..(n - 1)}

LiteralsUpTo(n, scalars) == UNION {Literals(i, scalars) : i \in 1..n}

\* The lists of literals of at most n nodes together.
RECURSIVE LiteralLists(_, _)
LiteralLists(n, scalars) ==
    {<<>>} \cup UNION {{<<c>> \o rest : c \in Literals(i, scalars), rest \in LiteralLists(n - i, scalars)} :
                       i \in 1..n}

\* The scalars of the literals: `current` holds no marker to begin with.
CurrentScalars == {Num(1), NaN, Undefined}
ChangesScalars == {Num(1), Null, Undefined, OMIT}

\* Evaluating a literal: the collection is allocated, then filled key by key.
RECURSIVE Build(_, _)
RECURSIVE BuildKids(_, _, _, _)
BuildKids(h, x, tree, keys) ==
    IF keys = <<>> THEN h
    ELSE LET b == Build(h, tree.p[Head(keys)])
         IN BuildKids(SetProp(b.heap, x, Head(keys), b.val), x, tree, Tail(keys))

Build(h, tree) ==
    IF IsLeaf(tree) THEN [heap |-> h, val |-> [t |-> tree.t, v |-> tree.v]]
    ELSE LET a == Alloc(h, IF tree.t = "Array" THEN NewArray ELSE NewObject)
         IN [heap |-> BuildKids(a.heap, a.val, tree, SelectSeq(IndexKeys, LAMBDA k : k \in DOMAIN tree.p)),
             val |-> a.val]

RECURSIVE BuildAll(_, _)
BuildAll(h, trees) ==
    IF trees = <<>> THEN [heap |-> h, vals |-> <<>>]
    ELSE LET b == Build(h, Head(trees))
             r == BuildAll(b.heap, Tail(trees))
         IN [heap |-> r.heap, vals |-> <<b.val>> \o r.vals]

\* The value at x as a tree again (deep structure, identity forgotten).
RECURSIVE TreeOf(_, _)
TreeOf(h, x) ==
    IF x.t # "ref" THEN Leaf(x)
    ELSE [t |-> Deref(h, x).kind, v |-> Deref(h, x).len,
          p |-> [k \in DOMAIN Deref(h, x).p |-> TreeOf(h, Deref(h, x).p[k])]]

\* ------------------------------------------------------------------ the caller
VARIABLES heap, current, changes, result, pc, before, lastCurrent, lastChanges,
          heap0, current0, changes0
vars == <<heap, current, changes, result, pc, before, lastCurrent, lastChanges,
          heap0, current0, changes0>>

\* The caller holds a `current` value and the list of changes to apply to it.
\* The changes are literals of their own, or the caller passes `current` itself.
Init ==
    \E c \in LiteralsUpTo(MaxCurrentNodes, CurrentScalars) :
      \E cs \in LiteralLists(MaxChangesNodes, ChangesScalars), alias \in BOOLEAN :
        LET b == Build(<<>>, c)
            r == IF alias THEN [heap |-> b.heap, vals |-> <<b.val>>] ELSE BuildAll(b.heap, cs)
        IN /\ alias => cs = <<>>
           /\ heap = r.heap
           /\ current = b.val
           /\ changes = r.vals
           /\ result = Undefined
           /\ pc = "ready"
           /\ before = r.heap
           /\ lastCurrent = b.val
           /\ lastChanges = <<>>
           /\ heap0 = r.heap
           /\ current0 = b.val
           /\ changes0 = r.vals

\* result = deepMergeChanges(current, ...changes)
Call ==
    /\ pc = "ready"
    /\ LET r == deepMergeChanges(heap, current, changes)
       IN /\ heap' = r.heap
          /\ result' = r.val
          /\ current' = r.val
    /\ changes' = <<>>
    /\ pc' = "done"
    /\ before' = heap
    /\ lastCurrent' = current
    /\ lastChanges' = changes
    /\ UNCHANGED <<heap0, current0, changes0>>

\* current = deepMergeChanges(current, change), one change of the list at a time.
CallOne ==
    /\ pc = "ready"
    /\ changes # <<>>
    /\ LET r == deepMergeChanges(heap, current, <<Head(changes)>>)
       IN /\ heap' = r.heap
          /\ result' = r.val
          /\ current' = r.val
    /\ changes' = Tail(changes)
    /\ pc' = IF Tail(changes) = <<>> THEN "done" ELSE "ready"
    /\ before' = heap
    /\ lastCurrent' = current
    /\ lastChanges' = <<Head(changes)>>
    /\ UNCHANGED <<heap0, current0, changes0>>

Next == Call \/ CallOne

Spec == Init /\ [][Next]_vars

\* ------------------------------------------------------------------ properties
\* The last call was a pairwise merge deepMergeChanges(cur, nxt).
LastPair == Len(lastChanges) = 1
cur == lastCurrent
nxt == lastChanges[1]

IsObject(h, x) == x.t = "ref" /\ Deref(h, x).kind = "Object"
Keys(h, x) == DOMAIN Deref(h, x).p
\* A value that existed before the call: a scalar, or a collection of the old heap.
Old(x) == x.t # "ref" \/ x.v <= Len(before)

\* The removal marker occurs somewhere in the tree.
RECURSIVE HasOmit(_)
HasOmit(tree) == tree.t = "symbol" \/ \E k \in DOMAIN tree.p : HasOmit(tree.p[k])

\* A Value of the data model: arrays are sequences, with every index present.
RECURSIVE IsValue(_)
IsValue(tree) ==
    /\ tree.t = "Array" => DOMAIN tree.p = {ToKey(i - 1) : i \in 1..tree.v}
    /\ \A k \in DOMAIN tree.p : IsValue(tree.p[k])

\* x, a value of the heap after the call, is what the pairwise merge r made of
\* it: deep-equal, and the very same value when r returned an old one.
SameOutcome(x, r) ==
    /\ TreeOf(heap, x) = TreeOf(r.heap, r.val)
    /\ Old(r.val) => x = r.val
    /\ ~Old(r.val) => ~Old(x)

\* C1: a result that is deep-equal to a marker-free collection `current` is
\* `current` itself (the same reference).
ShallowEqualCollapse ==
    (/\ LastPair
     /\ isCollection(before, cur)
     /\ IsValue(TreeOf(before, cur))
     /\ ~HasOmit(TreeOf(before, cur))
     /\ TreeOf(heap, result) = TreeOf(before, cur))
    => result = cur

\* C2: a call leaves `current` and every changes argument deep-equal to what
\* they were before it.
NoMutation ==
    /\ TreeOf(heap, lastCurrent) = TreeOf(before, lastCurrent)
    /\ \A i \in 1..Len(lastChanges) : TreeOf(heap, lastChanges[i]) = TreeOf(before, lastChanges[i])

\* A call that removed an index of an array `current` and built a new array.
NoMutationWitness ==
    /\ LastPair
    /\ IsArray(before, cur)
    /\ isCollection(before, nxt)
    /\ \E k \in Keys(before, nxt) : Get(before, nxt, k) = OMIT
    /\ ~Old(result)
    /\ Deref(heap, result).len < Deref(before, cur).len

\* C3: two sequences, the changes without a marker: the result is deep-equal to
\* the changes array (or is `current` itself when the two are deep-equal).
ArrayFullReplace ==
    (/\ LastPair
     /\ IsArray(before, cur) /\ IsValue(TreeOf(before, cur))
     /\ IsArray(before, nxt) /\ IsValue(TreeOf(before, nxt))
     /\ ~HasOmit(TreeOf(before, nxt)))
    => \/ TreeOf(heap, result) = TreeOf(before, nxt)
       \/ result = cur /\ TreeOf(before, cur) = TreeOf(before, nxt)

\* `current` is a sequence and the changes a record of indices within it.
IndexPatch ==
    /\ LastPair
    /\ IsArray(before, cur) /\ IsValue(TreeOf(before, cur))
    /\ IsObject(before, nxt)
    /\ \A k \in Keys(before, nxt) : ToNumber(k) < Deref(before, cur).len

\* C4: an index patch without a marker at its top level gives a sequence of the
\* same length: a patched index holds the pairwise merge of its element and its
\* patch, every other index holds the element of `current` itself.
ArrayIndexPatch ==
    (IndexPatch /\ \A k \in Keys(before, nxt) : Get(before, nxt, k) # OMIT)
    => /\ IsArray(heap, result)
       /\ Deref(heap, result).len = Deref(before, cur).len
       /\ Keys(heap, result) = Keys(before, cur)
       /\ \A k \in Keys(before, cur) :
              IF k \in Keys(before, nxt)
              THEN SameOutcome(Get(heap, result, k),
                               deepMergeChanges(before, Get(before, cur, k), <<Get(before, nxt, k)>>))
              ELSE Get(heap, result, k) = Get(before, cur, k)

\* One element is patched by a merge of two collections into a new collection.
ArrayIndexPatchWitness ==
    /\ IndexPatch
    /\ \A k \in Keys(before, nxt) : Get(before, nxt, k) # OMIT
    /\ \E k \in Keys(before, nxt) :
           /\ isCollection(before, Get(before, cur, k))
           /\ isCollection(before, Get(before, nxt, k))
           /\ ~Old(Get(heap, result, k))

\* The elements an index patch with markers is to leave, in order, as trees.
Survivors ==
    LET n == Deref(before, cur).len
        kept == SelectSeq([i \in 1..n |-> ToKey(i - 1)],
                          LAMBDA k : Get(before, nxt, k) # OMIT)
    IN [i \in 1..Len(kept) |->
           IF kept[i] \in Keys(before, nxt)
           THEN LET r == deepMergeChanges(before, Get(before, cur, kept[i]), <<Get(before, nxt, kept[i])>>)
                IN TreeOf(r.heap, r.val)
           ELSE TreeOf(before, Get(before, cur, kept[i]))]

\* C5: an index patch with markers gives exactly the unmarked elements of
\* `current`, in order, the patched ones merged with their patch.
ArrayIndexRemoval ==
    (IndexPatch /\ \E k \in Keys(before, nxt) : Get(before, nxt, k) = OMIT)
    => /\ IsArray(heap, result)
       /\ Deref(heap, result).len = Len(Survivors)
       /\ Keys(heap, result) = {ToKey(i - 1) : i \in 1..Len(Survivors)}
       /\ \A i \in 1..Len(Survivors) : TreeOf(heap, Get(heap, result, ToKey(i - 1))) = Survivors[i]

\* C6: two records: a key marked in the changes is absent from the result, and
\* changes that only mark keys `current` lacks return `current` itself.
RecordKeyRemoval ==
    (LastPair /\ IsObject(before, cur) /\ IsObject(before, nxt))
    => /\ \A k \in Keys(before, nxt) : Get(before, nxt, k) = OMIT => k \notin Keys(heap, result)
       /\ (/\ Keys(before, nxt) # {}
           /\ \A k \in Keys(before, nxt) : Get(before, nxt, k) = OMIT /\ k \notin Keys(before, cur))
          => result = cur

\* Structural sharing between the record c, its patch n and their merge r.
RECURSIVE Shares(_, _, _)
Shares(c, n, r) ==
    (IsObject(before, c) /\ IsObject(before, n))
    => /\ IsObject(heap, r)
       /\ \A k \in Keys(before, c) \ Keys(before, n) :
              k \in Keys(heap, r) /\ Get(heap, r, k) = Get(before, c, k)
       /\ \A k \in Keys(before, c) \cap Keys(before, n) :
              Get(before, n, k) # OMIT
              => Shares(Get(before, c, k), Get(before, n, k), Get(heap, r, k))

\* C7: two records: a key of `current` the changes do not name keeps its very
\* value in the result, also inside every nested record the changes patch.
StructuralSharing == LastPair => Shares(cur, nxt, result)

\* A nested record is patched into a new record that keeps an untouched collection.
StructuralSharingWitness ==
    /\ LastPair /\ IsObject(before, cur) /\ IsObject(before, nxt)
    /\ \E k \in Keys(before, cur) \cap Keys(before, nxt) :
           /\ IsObject(before, Get(before, cur, k)) /\ IsObject(before, Get(before, nxt, k))
           /\ ~Old(Get(heap, result, k))
           /\ \E j \in Keys(before, Get(before, cur, k)) \ Keys(before, Get(before, nxt, k)) :
                  /\ Get(before, Get(before, cur, k), j).t = "ref"
                  /\ Get(heap, Get(heap, result, k), j) = Get(before, Get(before, cur, k), j)

\* C8: however the caller splits the changes over calls, the final result (and
\* heap) is that of the one call deepMergeChanges(current, ...changes); with no
\* changes the result is `current`.
FoldEquivalence ==
    pc = "done"
    => /\ LET r == deepMergeChanges(heap0, current0, changes0)
          IN heap = r.heap /\ result = r.val
       /\ changes0 = <<>> => result = current0 /\ heap = heap0

\* Two or more changes were applied by pairwise calls, the first of them a merge.
FoldEquivalenceWitness ==
    /\ pc = "done"
    /\ Len(changes0) >= 2
    /\ LastPair
    /\ isCollection(heap0, current0) /\ isCollection(heap0, changes0[1])
    /\ result # current0

\* C9: when `current` or the changes is not a collection, the result is the
\* changes value itself and nothing is merged.
OverwriteRule ==
    (LastPair /\ (~isCollection(before, cur) \/ ~isCollection(before, nxt)))
    => result = nxt /\ heap = before

\* A record `current` overwritten by a scalar, null included.
OverwriteRuleWitness ==
    /\ LastPair
    /\ IsObject(before, cur)
    /\ nxt = Null
    /\ result = Null

\* C10: with a marker-free `current`, the result of merging changes into it
\* holds no removal marker at any depth.
MarkerNeverSurvives ==
    (/\ LastPair
     /\ isCollection(before, cur) /\ isCollection(before, nxt)
     /\ ~HasOmit(TreeOf(before, cur)))
    => ~HasOmit(TreeOf(heap, result))

====
